---- MODULE Spec2Model ----
(***************************************************************************)
(* A model of WartsReader (sc_warts.py): the decoder of binary "warts"     *)
(* captures.  The capture is a byte sequence fixed at construction; the    *)
(* reader consumes it forward-only.  Every loop iteration of next() (one   *)
(* object header and its handler) is one action.  The decoders are         *)
(* operators over a decoder state s, each written as a chain of steps that *)
(* take the state the step before them produced:                           *)
(*   s.pos  offset of the stream (bytes consumed so far)                   *)
(*   s.ref  the address table (self.address_ref)                           *)
(*   s.err  the uncaught exception, NoErr while none was raised            *)
(*   s.val  the value returned by the last call                            *)
(*   s.log  history of the calls made (for stating the properties)         *)
(*   s.reg  history: id -> the addresses registered under it since the     *)
(*          last clear() of the table                                      *)
(*   s.n    ordinal of the object being decoded                            *)
(* Python 2 strings are byte strings: both the raw address bytes and the   *)
(* text that inet_ntop returns are sequences of numbers 0..255.            *)
(***************************************************************************)
EXTENDS Integers, Sequences, FiniteSets, TLC

VARIABLES
  buf,                   \* the bytes of the capture (self.fd), never changes
  pos,                   \* read offset of self.fd
  address_ref,           \* self.address_ref
  deprecated_addresses,  \* self.deprecated_addresses
  record_len,            \* self.record_len
  state,                 \* self.state
  status,                \* "run", "eof" (next() returned (False, False)), "dead"
  err,                   \* the exception that ended the process, or NoErr
  out,                   \* the values returned by the calls of next(), in order
  log,                   \* history of decoder calls
  reg,                   \* history of registrations since the last clear()
  nobj,                  \* number of object headers read
  hdrs,                  \* history: per header read, its type, length and end offset
  objs                   \* the pieces the capture was assembled from

vars == <<buf, pos, address_ref, deprecated_addresses, record_len, state,
          status, err, out, log, reg, nobj, hdrs, objs>>

\* ------------------------------------------------------------ exceptions
NoErr == "none"
StructError == "struct.error"        \* struct.unpack on a short read
AssertionFailed == "AssertionError"  \* assert
SystemExit == "SystemExit"           \* sys.exit(-1)
ValueError == "ValueError"           \* inet_ntop on a wrong length

Ok(s) == s.err = NoErr
Fail(s, e) == [s EXCEPT !.err = e]
Emit(s, ev) == [s EXCEPT !.log = Append(@, ev)]

EmptyMap == [x \in {} |-> 0]

Min(a, b) == IF a <= b THEN a ELSE b

\* ------------------------------------------------------------ primitives
\* f.read(n): up to n bytes, fewer at the end of the stream
fd_read(s, n) ==
  [s EXCEPT !.pos = s.pos + Min(n, Len(buf) - s.pos),
            !.val = SubSeq(buf, s.pos + 1, s.pos + Min(n, Len(buf) - s.pos))]

\* struct.unpack('B' / '!H' / '!I', <the n bytes read>)
unpack(r, n) ==
  IF Len(r.val) # n THEN Fail(r, StructError)
  ELSE IF n = 1 THEN [r EXCEPT !.val = r.val[1]]
  ELSE IF n = 2 THEN [r EXCEPT !.val = r.val[1] * 256 + r.val[2]]
  ELSE [r EXCEPT !.val = ((r.val[1] * 256 + r.val[2]) * 256 + r.val[3]) * 256
                         + r.val[4]]

read_uint8_t(s) == IF ~Ok(s) THEN s ELSE unpack(fd_read(s, 1), 1)

read_uint16_t(s) == IF ~Ok(s) THEN s ELSE unpack(fd_read(s, 2), 2)

read_uint32_t(s) == IF ~Ok(s) THEN s ELSE unpack(fd_read(s, 4), 4)

\* sec + usec/1000000.0, held in microseconds
timeval(sec, usec) ==
  IF ~Ok(usec) THEN usec ELSE [usec EXCEPT !.val = sec.val * 1000000 + usec.val]

timeval_usec(sec) == timeval(sec, read_uint32_t(sec))

read_timeval(s) == timeval_usec(read_uint32_t(s))

\* read_string returns str; eof: the stream ended before a terminator was read
string_return(s0, r, str, eof) ==
  Emit([r EXCEPT !.val = str],
       [op |-> "read_string", n |-> s0.n, start |-> s0.pos, eof |-> eof,
        returned |-> TRUE, str |-> str])

RECURSIVE read_string_loop(_, _, _)
\* lines 443-446, b = f.read(1) being r.val
read_string_byte(s0, r, str) ==
  IF Len(r.val) # 1 THEN string_return(s0, r, str, TRUE)
  ELSE IF r.val[1] = 0 THEN string_return(s0, r, str, FALSE)
  ELSE read_string_loop(s0, r, Append(str, r.val[1]))

read_string_loop(s0, s, str) == read_string_byte(s0, fd_read(s, 1), str)

read_string(s) == IF ~Ok(s) THEN s ELSE read_string_loop(s, s, <<>>)

\* a mutant of more_flags: the continuation bit is 0x40
more_flags_0x40(b) == (b \div 64) % 2 = 1

\* lines 360-363
more_flags(b) == (b \div 128) % 2 = 1

bit_set(b, i) == (b \div (2 ^ (i - 1))) % 2 = 1

\* ------------------------------------------------------------ inet_ntop
Dec(n) ==
  IF n < 10 THEN <<48 + n>>
  ELSE IF n < 100 THEN <<48 + (n \div 10), 48 + (n % 10)>>
  ELSE <<48 + (n \div 100), 48 + ((n \div 10) % 10), 48 + (n % 10)>>

HexDigit(d) == IF d < 10 THEN 48 + d ELSE 87 + d

RECURSIVE Hex(_)
Hex(w) == IF w < 16 THEN <<HexDigit(w)>>
          ELSE Append(Hex(w \div 16), HexDigit(w % 16))

inet_ntop4(a) == Dec(a[1]) \o <<46>> \o Dec(a[2]) \o <<46>> \o Dec(a[3])
                 \o <<46>> \o Dec(a[4])

\* length of the run of zero words of w that starts at word i (0-based)
RECURSIVE ZeroRun(_, _)
ZeroRun(w, i) == IF i > 7 \/ w[i + 1] # 0 THEN 0 ELSE 1 + ZeroRun(w, i + 1)

\* the text of the words from i on; base, len: the run of zeros written "::"
RECURSIVE ntop6_emit(_, _, _, _, _, _)
ntop6_word(a, w, base, len, i, tp) ==
  IF i = 6 /\ base = 0
     /\ (len = 6 \/ (len = 7 /\ w[8] # 1) \/ (len = 5 /\ w[6] = 65535))
  THEN tp \o inet_ntop4(SubSeq(a, 13, 16))
  ELSE ntop6_emit(a, w, base, len, i + 1, tp \o Hex(w[i + 1]))

ntop6_emit(a, w, base, len, i, tp) ==
  IF i > 7 THEN tp
  ELSE IF base # -1 /\ i >= base /\ i < base + len
  THEN ntop6_emit(a, w, base, len, i + 1,
                  IF i = base THEN Append(tp, 58) ELSE tp)
  ELSE ntop6_word(a, w, base, len, i, IF i # 0 THEN Append(tp, 58) ELSE tp)

ntop6_text(base, len, tp) ==
  IF base # -1 /\ base + len = 8 THEN Append(tp, 58) ELSE tp

ntop6_run(a, w, base) ==
  ntop6_text(base, IF base = -1 THEN 0 ELSE ZeroRun(w, base),
             ntop6_emit(a, w, base, IF base = -1 THEN 0 ELSE ZeroRun(w, base),
                        0, <<>>))

\* the first longest run of at least two zero words, -1 if there is none
ntop6_best(w, long) ==
  IF long = {} THEN -1
  ELSE CHOOSE i \in long : \A j \in long :
         ZeroRun(w, i) > ZeroRun(w, j) \/ (ZeroRun(w, i) = ZeroRun(w, j) /\ i <= j)

ntop6_words(a, w) ==
  ntop6_run(a, w, ntop6_best(w, {i \in 0..7 : /\ w[i + 1] = 0
                                              /\ (i = 0 \/ w[i] # 0)
                                              /\ ZeroRun(w, i) >= 2}))

inet_ntop6(a) == ntop6_words(a, [i \in 1..8 |-> a[2 * i - 1] * 256 + a[2 * i]])

AF_INET == "AF_INET"
AF_INET6 == "AF_INET6"

\* socket.inet_ntop(af, addr): the text of the address, ValueError on a
\* packed address of the wrong length
inet_ntop(af, s, addr) ==
  IF af = AF_INET
  THEN IF Len(addr) # 4 THEN Fail(s, ValueError)
       ELSE [s EXCEPT !.val = inet_ntop4(addr)]
  ELSE IF Len(addr) # 16 THEN Fail(s, ValueError)
       ELSE [s EXCEPT !.val = inet_ntop6(addr)]

\* ------------------------------------------------------------ address table
\* self.address_ref[addr_id] = value; typ and addr: the family and the packed
\* bytes of the address
register(s, via, addr_id, value, typ, addr) ==
  [s EXCEPT !.ref = (addr_id :> value) @@ s.ref,
            !.reg = (addr_id :> ((IF addr_id \in DOMAIN s.reg
                                  THEN s.reg[addr_id] ELSE {})
                                 \cup {<<typ, addr>>})) @@ s.reg,
            !.log = Append(@, [op |-> "register", n |-> s.n, via |-> via,
                               id |-> addr_id, typ |-> typ, addr |-> addr,
                               fresh |-> addr_id \notin DOMAIN s.ref,
                               size |-> Cardinality(DOMAIN s.ref)])]

\* the history entry of a lookup of addr_id; r is the state the lookup ends in
resolved(s, r, via, addr_id) ==
  Emit(r, [op |-> "resolve", n |-> s.n, via |-> via, id |-> addr_id,
           known |-> addr_id \in DOMAIN s.ref,
           registered |-> IF addr_id \in DOMAIN s.reg THEN s.reg[addr_id] ELSE {},
           returned |-> Ok(r),
           res |-> IF Ok(r) THEN r.val ELSE <<>>])

\* self.address_ref.clear()
clear(s) ==
  [s EXCEPT !.ref = EmptyMap, !.reg = EmptyMap,
            !.log = Append(@, [op |-> "clear", n |-> s.n,
                               removed |-> DOMAIN s.ref])]

\* lines 341-343: a type of 0 is inferred from the length
addr_typ(typ, addr) ==
  IF typ # 0 THEN typ
  ELSE IF Len(addr) = 16 THEN 2
  ELSE IF Len(addr) = 4 THEN 1
  ELSE 0

\* lines 344-351
format_address(s, typ, addr) ==
  IF typ = 1 THEN inet_ntop(AF_INET, s, addr)
  ELSE IF typ = 2 THEN inet_ntop(AF_INET6, s, addr)
  ELSE Fail(s, AssertionFailed)

\* lines 330-332: a is the state after addr = self.fd.read(length)
address_embedded(typ, a) ==
  format_address(register(a, "read_address", Cardinality(DOMAIN a.ref), a.val,
                          addr_typ(typ, a.val), a.val),
                 addr_typ(typ, a.val), a.val)

\* line 329: t is the state after typ was read
address_typ(length, t) ==
  IF ~Ok(t) THEN t ELSE address_embedded(t.val, fd_read(t, length))

\* lines 335-340: i is the state after addr_id was read
address_referenced(i) ==
  IF ~Ok(i) THEN i
  ELSE IF i.val \notin DOMAIN i.ref
  THEN resolved(i, Fail(i, SystemExit), "read_address", i.val)
  ELSE resolved(i, format_address(i, addr_typ(0, i.ref[i.val]), i.ref[i.val]),
                "read_address", i.val)

\* line 328: length is the state after the length byte was read
address_length(length) ==
  IF ~Ok(length) THEN length
  ELSE IF length.val # 0 THEN address_typ(length.val, read_uint8_t(length))
  ELSE address_referenced(read_uint32_t(length))

read_address(s) == IF ~Ok(s) THEN s ELSE address_length(read_uint8_t(s))

\* lines 356-358: i is the state after addr_id was read
referenced_address(i) ==
  IF ~Ok(i) THEN i
  ELSE IF i.val \notin DOMAIN i.ref
  THEN resolved(i, Fail(i, AssertionFailed), "read_referenced_address", i.val)
  ELSE resolved(i, [i EXCEPT !.val = i.ref[i.val]], "read_referenced_address",
                i.val)

read_referenced_address(s) ==
  IF ~Ok(s) THEN s ELSE referenced_address(read_uint32_t(s))

\* line 319: quad is the state after inet_ntop
old_address_store(addr_id, typ, addr, quad) ==
  IF ~Ok(quad) THEN quad
  ELSE register(quad, "read_old_address", addr_id, quad.val, typ, addr)

\* lines 311-315: a is the state after addr was read
old_address_quad(addr_id, typ, a) ==
  old_address_store(addr_id, typ, a.val,
                    inet_ntop(IF typ = 1 THEN AF_INET ELSE AF_INET6, a, a.val))

\* a mutant of old_address_typ: the embedded id is not compared
old_address_typ_unchecked(addr_id, id_mod, typ) ==
  IF ~Ok(typ) THEN typ
  ELSE IF typ.val = 1 THEN old_address_quad(addr_id, 1, fd_read(typ, 4))
  ELSE IF typ.val = 2 THEN old_address_quad(addr_id, 2, fd_read(typ, 16))
  ELSE Fail(typ, AssertionFailed)

\* lines 309-318: typ is the state after the type byte was read
old_address_typ(addr_id, id_mod, typ) ==
  IF ~Ok(typ) THEN typ
  ELSE IF addr_id % 255 # id_mod THEN Fail(typ, AssertionFailed)
  ELSE IF typ.val = 1 THEN old_address_quad(addr_id, 1, fd_read(typ, 4))
  ELSE IF typ.val = 2 THEN old_address_quad(addr_id, 2, fd_read(typ, 16))
  ELSE Fail(typ, AssertionFailed)

\* lines 305-306: id_mod is the state after the id byte was read
old_address_id_mod(addr_id, id_mod) ==
  old_address_typ(addr_id, id_mod.val, read_uint8_t(id_mod))

read_old_address(s) ==
  IF ~Ok(s) THEN s
  ELSE old_address_id_mod(Cardinality(DOMAIN s.ref) + 1, read_uint8_t(s))

\* ------------------------------------------------------------ icmp extensions
\* struct.unpack('I', ie): native order, little-endian; the text holds the
\* four numbers
parse_mpls_icmpext(ie) ==
  [ttl |-> ie[4], s |-> ie[3] % 2, exp |-> (ie[3] \div 2) % 8,
   label |-> ie[1] * 4096 + ie[2] * 16 + (ie[3] \div 16)]

\* lines 427-430: the label stack entries, 4 bytes at a time
RECURSIVE read_mpls(_, _, _)
read_mpls_entry(b, ie_dl_read, ret) ==
  IF Len(b.val) # 4 THEN Fail(b, StructError)
  ELSE read_mpls(b, ie_dl_read - 4, Append(ret, parse_mpls_icmpext(b.val)))

read_mpls(s, ie_dl_read, ret) ==
  IF ie_dl_read < 4 THEN [s EXCEPT !.val = ret]
  ELSE read_mpls_entry(fd_read(s, 4), ie_dl_read, ret)

\* history: one iteration of the loop of read_icmpext, from s to r
icmpext_iteration(s, tot_len, ie_dl, r) ==
  Emit(r, [op |-> "icmpext", n |-> s.n, ie_dl |-> ie_dl,
           consumed |-> r.pos - s.pos, tot_len |-> tot_len,
           left |-> tot_len - 4 - ie_dl, returned |-> Ok(r)])

RECURSIVE read_icmpext_loop(_, _, _)
\* line 435, m the state after the label stack was read
icmpext_mpls(s, tot_len, ie_dl, m) ==
  IF ~Ok(m) THEN icmpext_iteration(s, tot_len, ie_dl, m)
  ELSE read_icmpext_loop(icmpext_iteration(s, tot_len, ie_dl, m),
                         tot_len - 4 - ie_dl, m.val)

\* lines 425-434
icmpext_class(s, tot_len, ret_string, ie_dl, ie_cn, ie_ct) ==
  IF ~Ok(ie_ct) THEN ie_ct
  ELSE IF ie_cn = 1 /\ ie_ct.val = 1
  THEN icmpext_mpls(s, tot_len, ie_dl, read_mpls(ie_ct, ie_dl, ret_string))
  ELSE icmpext_iteration(s, tot_len, ie_dl,
                         Fail(fd_read(ie_ct, ie_dl), SystemExit))

icmpext_ct(s, tot_len, ret_string, ie_dl, ie_cn) ==
  icmpext_class(s, tot_len, ret_string, ie_dl, ie_cn.val, read_uint8_t(ie_cn))

icmpext_cn(s, tot_len, ret_string, ie_dl) ==
  icmpext_ct(s, tot_len, ret_string, ie_dl.val, read_uint8_t(ie_dl))

read_icmpext_loop(s, tot_len, ret_string) ==
  IF tot_len <= 0 THEN [s EXCEPT !.val = ret_string]
  ELSE icmpext_cn(s, tot_len, ret_string, read_uint16_t(s))

icmpext_return(s, tot_len, r) ==
  Emit(r, [op |-> "read_icmpext", n |-> s.n, tot_len |-> tot_len,
           consumed |-> r.pos - s.pos, returned |-> Ok(r)])

icmpext_tot_len(s, tot_len) ==
  IF ~Ok(tot_len) THEN tot_len
  ELSE icmpext_return(s, tot_len.val,
                      read_icmpext_loop(tot_len, tot_len.val, <<>>))

read_icmpext(s) == IF ~Ok(s) THEN s ELSE icmpext_tot_len(s, read_uint16_t(s))

\* ------------------------------------------------------------ flag schemas
list_flags == <<
  <<"description", "read_string">>,
  <<"monitor", "read_string">> >>

cycle_flags == <<
  <<"stoptime", "read_uint32_t">>,
  <<"hostname", "read_string">> >>

ping_flags == <<
  <<"listid", "read_uint32_t">>,
  <<"cycleid", "read_uint32_t">>,
  <<"srcipid", "read_referenced_address">>,
  <<"dstipid", "read_referenced_address">>,
  <<"timeval", "read_timeval">>,
  <<"stopreas", "read_uint8_t">>,
  <<"stopdata", "read_uint8_t">>,
  <<"datalen", "read_uint16_t">>,
  <<"data", "read_uint8_t">>,
  <<"pcount", "read_uint16_t">>,
  <<"size", "read_uint16_t">>,
  <<"wait", "read_uint8_t">>,
  <<"ttl", "read_uint8_t">>,
  <<"rcount", "read_uint16_t">>,
  <<"psent", "read_uint16_t">>,
  <<"method", "read_uint8_t">>,
  <<"sport", "read_uint16_t">>,
  <<"dport", "read_uint16_t">>,
  <<"userid", "read_uint32_t">>,
  <<"srcaddr", "read_address">>,
  <<"dstaddr", "read_address">>,
  <<"flags", "read_uint8_t">>,
  <<"tos", "read_uint8_t">>,
  <<"tsps", "read_address">>,
  <<"icmpsum", "read_uint16_t">>,
  <<"pmtu", "read_uint16_t">>,
  <<"timeout", "read_uint8_t">>,
  <<"waitus", "read_uint32_t">> >>

ping_reply_flags == <<
  <<"dstipid", "read_referenced_address">>,
  <<"flags", "read_uint8_t">>,
  <<"replyttl", "read_uint8_t">>,
  <<"replysize", "read_uint16_t">>,
  <<"icmp", "read_uint16_t">>,
  <<"rtt", "read_uint32_t">>,
  <<"probeid", "read_uint16_t">>,
  <<"replyipid", "read_uint16_t">>,
  <<"probeipid", "read_uint16_t">>,
  <<"replyproto", "read_uint8_t">>,
  <<"tcpflags", "read_uint8_t">>,
  <<"addr", "read_address">>,
  <<"v4rr", "read_address">>,
  <<"v4ts", "read_address">>,
  <<"replyipid32", "read_uint32_t">>,
  <<"tx", "read_timeval">>,
  <<"tsreply", "read_uint32_t">> >>

trace_flags == <<
  <<"listid", "read_uint32_t">>,
  <<"cycleid", "read_uint32_t">>,
  <<"srcipid", "read_referenced_address">>,
  <<"dstipid", "read_referenced_address">>,
  <<"timeval", "read_timeval">>,
  <<"stopreas", "read_uint8_t">>,
  <<"stopdata", "read_uint8_t">>,
  <<"traceflg", "read_uint8_t">>,
  <<"attempts", "read_uint8_t">>,
  <<"hoplimit", "read_uint8_t">>,
  <<"tracetyp", "read_uint8_t">>,
  <<"probesiz", "read_uint16_t">>,
  <<"srcport", "read_uint16_t">>,
  <<"dstport", "read_uint16_t">>,
  <<"firsttl", "read_uint8_t">>,
  <<"iptos", "read_uint8_t">>,
  <<"timeout", "read_uint8_t">>,
  <<"loops", "read_uint8_t">>,
  <<"probehop", "read_uint16_t">>,
  <<"gaplimit", "read_uint8_t">>,
  <<"gaprch", "read_uint8_t">>,
  <<"loopfnd", "read_uint8_t">>,
  <<"probesent", "read_uint16_t">>,
  <<"minwait", "read_uint8_t">>,
  <<"confid", "read_uint8_t">>,
  <<"srcaddr", "read_address">>,
  <<"dstaddr", "read_address">>,
  <<"usrid", "read_uint32_t">> >>

hop_flags == <<
  <<"addrid", "read_referenced_address">>,
  <<"probettl", "read_uint8_t">>,
  <<"replyttl", "read_uint8_t">>,
  <<"hopflags", "read_uint8_t">>,
  <<"probeid", "read_uint8_t">>,
  <<"rtt", "read_uint32_t">>,
  <<"icmp", "read_uint16_t">>,
  <<"probesize", "read_uint16_t">>,
  <<"replysize", "read_uint16_t">>,
  <<"ipid", "read_uint16_t">>,
  <<"tos", "read_uint8_t">>,
  <<"mtu", "read_uint16_t">>,
  <<"qlen", "read_uint16_t">>,
  <<"qttl", "read_uint8_t">>,
  <<"tcpflags", "read_uint8_t">>,
  <<"qtos", "read_uint8_t">>,
  <<"icmpext", "read_icmpext">>,
  <<"addr", "read_address">>,
  <<"tx", "read_timeval">> >>

\* ------------------------------------------------------------ read_flags
\* val = read_cb(self.fd), lines 203-207
read_cb(cb, s) ==
  CASE cb = "read_uint8_t" -> read_uint8_t(s)
    [] cb = "read_uint16_t" -> read_uint16_t(s)
    [] cb = "read_uint32_t" -> read_uint32_t(s)
    [] cb = "read_timeval" -> read_timeval(s)
    [] cb = "read_string" -> read_string(s)
    [] cb = "read_address" -> read_address(s)
    [] cb = "read_referenced_address" -> read_referenced_address(s)
    [] cb = "read_icmpext" -> read_icmpext(s)

\* a mutant of flag_bits: the bits are numbered from 0 (range(0,7))
flag_bits_from0(flag) == [i \in 1..7 |-> (flag \div (2 ^ i)) % 2 = 1]

\* line 192: [self.bit_set(flag, i) for i in range(1,8)]
flag_bits(flag) == [i \in 1..7 |-> bit_set(flag, i)]

\* lines 189-193: the flag bytes.  flags_set is 0-based in the code and 1-based
\* here: flags_set[i] of the code is flags_set[i + 1]; fbytes: the bytes read
RECURSIVE read_flag_bytes(_, _, _)
\* a mutant of read_flag_byte: a flag byte takes 8 positions of flags_set
read_flag_byte_8(r, flags_set, fbytes) ==
  IF ~Ok(r)
  THEN [r EXCEPT !.val = [flags_set |-> flags_set, fbytes |-> fbytes, flag |-> 0]]
  ELSE IF more_flags(r.val)
  THEN read_flag_bytes(r, flags_set \o flag_bits(r.val) \o <<FALSE>>,
                       Append(fbytes, r.val))
  ELSE [r EXCEPT !.val = [flags_set |-> flags_set \o flag_bits(r.val) \o <<FALSE>>,
                          fbytes |-> Append(fbytes, r.val), flag |-> r.val]]

\* r is the state after flag = self.read_uint8_t(self.fd)
read_flag_byte(r, flags_set, fbytes) ==
  IF ~Ok(r)
  THEN [r EXCEPT !.val = [flags_set |-> flags_set, fbytes |-> fbytes, flag |-> 0]]
  ELSE IF more_flags(r.val)
  THEN read_flag_bytes(r, flags_set \o flag_bits(r.val), Append(fbytes, r.val))
  ELSE [r EXCEPT !.val = [flags_set |-> flags_set \o flag_bits(r.val),
                          fbytes |-> Append(fbytes, r.val), flag |-> r.val]]

read_flag_bytes(s, flags_set, fbytes) ==
  read_flag_byte(read_uint8_t(s), flags_set, fbytes)

\* unknown: the number printed by line 201, 0 when the line was not reached
NoFlags == [flags |-> EmptyMap, order |-> <<>>, unknown |-> 0]

\* lines 198-209: the fields of the set bits; acc.flags is the dict flags and
\* acc.order lists the indexes whose decoder was invoked, in invocation order
RECURSIVE read_flag_fields(_, _, _, _, _)
\* lines 208-209: r is the state after val = read_cb(...)
read_flag_field(flag_defines, flags_set, i, r, acc) ==
  IF ~Ok(r) THEN [r EXCEPT !.val = [acc EXCEPT !.order = Append(@, i)]]
  ELSE read_flag_fields(flag_defines, flags_set, i + 1, r,
         [flags |-> (flag_defines[i + 1][1] :> r.val) @@ acc.flags,
          order |-> Append(acc.order, i), unknown |-> 0])

\* a mutant of read_flag_fields: a set bit beyond the schema is skipped
read_flag_fields_skipping(flag_defines, flags_set, i, s, acc) ==
  IF i >= Len(flags_set) THEN [s EXCEPT !.val = acc]
  ELSE IF ~flags_set[i + 1] \/ i >= Len(flag_defines)
  THEN read_flag_fields(flag_defines, flags_set, i + 1, s, acc)
  ELSE read_flag_field(flag_defines, flags_set, i,
                       read_cb(flag_defines[i + 1][2], s), acc)

\* lines 198-207
read_flag_fields(flag_defines, flags_set, i, s, acc) ==
  IF i >= Len(flags_set) THEN [s EXCEPT !.val = acc]
  ELSE IF ~flags_set[i + 1]
  THEN read_flag_fields(flag_defines, flags_set, i + 1, s, acc)
  ELSE IF i >= Len(flag_defines)
  THEN Fail([s EXCEPT !.val = [acc EXCEPT !.unknown = i + 1]], SystemExit)
  ELSE read_flag_field(flag_defines, flags_set, i,
                       read_cb(flag_defines[i + 1][2], s), acc)

\* history of a call of read_flags: from s, b the state after the flag
\* bytes, r the state it ends in
flags_return(flag_defines, s, b, has_len, r) ==
  Emit([r EXCEPT !.val = r.val.flags],
       [op |-> "read_flags", n |-> s.n, start |-> s.pos,
        names |-> [i \in 1..Len(flag_defines) |-> flag_defines[i][1]],
        fbytes |-> b.val.fbytes,
        flags_read |-> Ok(b),
        has_len |-> has_len,
        order |-> r.val.order,
        unknown |-> r.val.unknown,
        keys |-> DOMAIN r.val.flags,
        returned |-> Ok(r),
        err |-> r.err,
        consumed |-> r.pos - s.pos])

\* lines 196-209: paramlen is the state after paramlen was read
flags_paramlen(flag_defines, b, paramlen) ==
  IF ~Ok(paramlen) THEN [paramlen EXCEPT !.val = NoFlags]
  ELSE read_flag_fields(flag_defines, b.val.flags_set, 0, paramlen, NoFlags)

\* a mutant of flags_set_read: the parameter length is read only when the
\* last flag byte is not 0
flags_set_read_last(flag_defines, s, b) ==
  IF ~Ok(b) THEN flags_return(flag_defines, s, b, FALSE, [b EXCEPT !.val = NoFlags])
  ELSE IF b.val.flag > 0
  THEN flags_return(flag_defines, s, b, TRUE,
                    flags_paramlen(flag_defines, b, read_uint16_t(b)))
  ELSE flags_return(flag_defines, s, b, FALSE, [b EXCEPT !.val = NoFlags])

\* lines 194-210: b is the state after the flag bytes were read
flags_set_read(flag_defines, s, b) ==
  IF ~Ok(b) THEN flags_return(flag_defines, s, b, FALSE, [b EXCEPT !.val = NoFlags])
  ELSE IF b.val.flag > 0 \/ Len(b.val.flags_set) > 8
  THEN flags_return(flag_defines, s, b, TRUE,
                    flags_paramlen(flag_defines, b, read_uint16_t(b)))
  ELSE flags_return(flag_defines, s, b, FALSE, [b EXCEPT !.val = NoFlags])

read_flags(flag_defines, s) ==
  IF ~Ok(s) THEN s
  ELSE flags_set_read(flag_defines, s, read_flag_bytes(s, <<>>, <<>>))

\* ------------------------------------------------------------ record parsers
\* flags[to] = flags[from] when from is a key and to is not
backfill(flags, from, to) ==
  IF from \in DOMAIN flags /\ to \notin DOMAIN flags
  THEN (to :> flags[from]) @@ flags ELSE flags

\* a mutant of default: the value is stored whether or not key is a key
default_always(flags, key, v) == (key :> v) @@ flags

\* flags[key] = v when key is not a key
default(flags, key, v) ==
  IF key \notin DOMAIN flags THEN (key :> v) @@ flags ELSE flags

\* a mutant of icmp_split: the low byte is the type, the high byte the code
icmp_split_swapped(hflags) ==
  IF "icmp" \in DOMAIN hflags
  THEN [k \in (DOMAIN hflags \ {"icmp"}) \cup {"icmp-type", "icmp-code"} |->
          IF k = "icmp-type" THEN hflags["icmp"] % 256
          ELSE IF k = "icmp-code" THEN hflags["icmp"] \div 256
          ELSE hflags[k]]
  ELSE hflags

\* lines 237-240
icmp_split(hflags) ==
  IF "icmp" \in DOMAIN hflags
  THEN [k \in (DOMAIN hflags \ {"icmp"}) \cup {"icmp-type", "icmp-code"} |->
          IF k = "icmp-type" THEN hflags["icmp"] \div 256
          ELSE IF k = "icmp-code" THEN hflags["icmp"] % 256
          ELSE hflags[k]]
  ELSE hflags

\* lines 228-240: addr back-fill, defaults and the icmp split of one hop
hop_record(hflags) ==
  icmp_split(default(default(backfill(hflags, "addrid", "addr"), "ipid", 0),
                     "qttl", 1))

\* lines 226-242
RECURSIVE read_hops(_, _, _)
\* hflags is the state after hflags = self.read_flags(self.hop_flags)
read_hop(s, hflags, records, hops) ==
  IF ~Ok(hflags) THEN hflags
  ELSE read_hops(Emit(hflags, [op |-> "hop", n |-> s.n, hflags |-> hflags.val,
                               hop |-> hop_record(hflags.val)]),
                 records - 1, Append(hops, hop_record(hflags.val)))

read_hops(s, records, hops) ==
  IF records = 0 THEN [s EXCEPT !.val = hops]
  ELSE read_hop(s, read_flags(hop_flags, s), records, hops)

\* lines 219-222: srcaddr/dstaddr back-fill
trace_record(flags) ==
  backfill(backfill(flags, "srcipid", "srcaddr"), "dstipid", "dstaddr")

\* history of a call of read_trace that read the end word
trace_return(s, records, end, r) ==
  Emit(r, [op |-> "read_trace", n |-> s.n, records |-> records, end |-> end,
           returned |-> Ok(r)])

\* a mutant of trace_end: the word after the hops is not compared with 0
trace_end_unchecked(s, flags, records, hops, end) ==
  IF ~Ok(end) THEN end
  ELSE trace_return(s, records, end.val,
                    [end EXCEPT !.val = [flags |-> trace_record(flags),
                                         children |-> hops]])

\* lines 243-245: end is the state after the word after the hops was read
trace_end(s, flags, records, hops, end) ==
  IF ~Ok(end) THEN end
  ELSE IF end.val # 0
  THEN trace_return(s, records, end.val, Fail(end, AssertionFailed))
  ELSE trace_return(s, records, end.val,
                    [end EXCEPT !.val = [flags |-> trace_record(flags),
                                         children |-> hops]])

\* hops is the state after the loop over the hops
trace_hops(s, flags, records, hops) ==
  trace_end(s, flags, records, hops.val, read_uint16_t(hops))

\* line 224: records is the state after the hop count was read
trace_records(s, flags, records) ==
  IF ~Ok(records) THEN records
  ELSE trace_hops(s, flags, records.val, read_hops(records, records.val, <<>>))

\* flags is the state after flags = self.read_flags(self.trace_flags)
trace_flags_read(s, flags) == trace_records(s, flags.val, read_uint16_t(flags))

\* a mutant of reset: the table is never emptied
reset_never(s) == s

\* a mutant of reset: the table is emptied whatever the addressing
reset_always(s) == clear(s)

\* lines 214-215
reset(s) == IF ~s.dep THEN clear(s) ELSE s

read_trace(s) == trace_flags_read(s, read_flags(trace_flags, reset(s)))

\* lines 254-257
RECURSIVE read_replies(_, _, _)
read_reply(ping, rcount, pings) ==
  IF ~Ok(ping) THEN ping
  ELSE read_replies(ping, rcount - 1, Append(pings, ping.val))

read_replies(s, rcount, pings) ==
  IF rcount = 0 THEN [s EXCEPT !.val = pings]
  ELSE read_reply(read_flags(ping_reply_flags, s), rcount, pings)

\* line 258: pings is the state after the loop over the replies
ping_replies(flags, pings) ==
  IF ~Ok(pings) THEN pings
  ELSE [pings EXCEPT !.val = [flags |-> flags, children |-> pings.val]]

\* line 252: rcount is the state after the reply count was read
ping_rcount(flags, rcount) ==
  IF ~Ok(rcount) THEN rcount
  ELSE ping_replies(flags, read_replies(rcount, rcount.val, <<>>))

ping_flags_read(flags) == ping_rcount(flags.val, read_uint16_t(flags))

read_ping(s) == ping_flags_read(read_flags(ping_flags, reset(s)))

\* self.state[key] = <the value just read>
set_state(r, key) == IF Ok(r) THEN [r EXCEPT !.state[key] = r.val] ELSE r

read_list(s) ==
  read_flags(list_flags,
    set_state(read_string(
      set_state(read_uint32_t(
        set_state(read_uint32_t(s), "wlistid")), "listid")), "name"))

read_cycle(s) ==
  read_flags(cycle_flags,
    set_state(read_uint32_t(
      set_state(read_uint32_t(
        set_state(read_uint32_t(
          set_state(read_uint32_t(s), "wcycleid")), "listid")), "cycleid")),
      "start"))

\* a mutant of read_cycle_stop: wcycleid is stored in the state
read_cycle_stop_storing(s) ==
  read_flags(cycle_flags,
             read_uint32_t(set_state(read_uint32_t(s), "wcycleid")))

read_cycle_stop(s) == read_flags(cycle_flags, read_uint32_t(read_uint32_t(s)))

\* lines 293-299: b is the state after buf = self.fd.read(8)
header(b) ==
  IF Len(b.val) # 8 THEN [b EXCEPT !.val = [obj |-> -1, length |-> -1]]
  ELSE IF b.val[1] * 256 + b.val[2] # 4613 THEN Fail(b, AssertionFailed)
  ELSE [b EXCEPT !.val =
          [obj |-> b.val[3] * 256 + b.val[4],
           length |-> ((b.val[5] * 256 + b.val[6]) * 256 + b.val[7]) * 256
                      + b.val[8]]]

read_header(s) == header(fd_read(s, 8))

\* ------------------------------------------------------------ the captures
\* big-endian encodings, the inverse of struct.unpack('!H') / ('!I')
U16(v) == <<v \div 256, v % 256>>
U32(v) == <<v \div 16777216, (v \div 65536) % 256, (v \div 256) % 256, v % 256>>

\* an object: the 8-byte header '!HHI' (magic 0x1205, type, length) and its body
Object(obj, body) == U16(4613) \o U16(obj) \o U32(Len(body)) \o body

V4(d) == <<4, 1, 10, 0, 0, d>>
V6(d) == <<16, 2, 32, 1, 13, 184, 0, 0, 0, 0, 0, 0, 0, 0, 0, 0, 0, d>>
Ref(id) == <<0>> \o U32(id)

\* the pieces captures are assembled from, by name
Bytes(id) ==
  CASE id = "list" -> Object(1, U32(1) \o U32(2) \o <<97, 0>> \o <<0>>)
    [] id = "list_d" ->
         Object(1, U32(3) \o U32(4) \o <<98, 0>> \o <<1>> \o U16(2) \o <<100, 0>>)
    [] id = "cycle" -> Object(2, U32(1) \o U32(2) \o U32(3) \o U32(4) \o <<0>>)
    [] id = "cycle_start" ->
         Object(3, U32(5) \o U32(6) \o U32(7) \o U32(8)
                   \o <<3>> \o U16(6) \o U32(9) \o <<104, 0>>)
    [] id = "cycle_stop" -> Object(4, U32(1) \o U32(5) \o <<128, 0>> \o U16(0))
    [] id = "addr1" -> Object(5, <<1, 1, 10, 0, 0, 1>>)
    [] id = "addr2" -> Object(5, <<2, 1, 10, 0, 0, 2>>)
    [] id = "addr1_v6" ->
         Object(5, <<1, 2, 0, 171, 0, 0, 0, 0, 0, 0, 0, 0, 0, 0, 0, 0, 0, 0>>)
    [] id = "addr_bad_id" -> Object(5, <<9, 1, 10, 0, 0, 9>>)
    [] id = "trace0" -> Object(6, <<0>> \o U16(0) \o U16(0))
    [] id = "trace_emb" ->
         Object(6, <<129, 128, 128, 48>> \o U16(16)
                   \o U32(7) \o V4(1) \o V4(2)
                   \o U16(2)
                   \o <<130, 128, 8>> \o U16(7) \o <<1>> \o V4(3)
                   \o <<194, 128, 8>> \o U16(8) \o <<2>> \o U16(2816) \o Ref(1)
                   \o U16(0))
    [] id = "trace_ref" ->
         Object(6, <<28>> \o U16(16) \o U32(1) \o U32(1) \o U32(3) \o U32(500000)
                   \o U16(1)
                   \o <<3>> \o U16(5) \o U32(1) \o <<1>>
                   \o U16(0))
    [] id = "trace_mix" ->
         Object(6, <<128, 128, 128, 16>> \o U16(6) \o V4(77)
                   \o U16(1)
                   \o <<1>> \o U16(4) \o U32(1)
                   \o U16(0))
    [] id = "trace_zref1" ->
         Object(6, <<128, 128, 128, 32>> \o U16(5) \o Ref(1) \o U16(0) \o U16(0))
    [] id = "trace_ref0" ->
         Object(6, <<0>> \o U16(1) \o <<128, 128, 8>> \o U16(5) \o Ref(0) \o U16(0))
    [] id = "trace_hops" ->
         Object(6, <<0>> \o U16(2)
                   \o <<0>>
                   \o <<192, 69>> \o U16(7) \o U16(2051) \o U16(44) \o U16(7) \o <<0>>
                   \o U16(0))
    [] id = "trace_mpls" ->
         Object(6, <<0>> \o U16(1)
                   \o <<128, 128, 4>> \o U16(10)
                   \o U16(8) \o U16(4) \o <<1, 1>> \o <<1, 2, 53, 64>>
                   \o U16(0))
    [] id = "trace_mpls6" ->
         Object(6, <<0>> \o U16(1)
                   \o <<128, 128, 4>> \o U16(12)
                   \o U16(10) \o U16(6) \o <<1, 1>> \o <<1, 2, 53, 64, 0, 0>>
                   \o U16(0))
    [] id = "trace_ext" ->
         Object(6, <<0>> \o U16(1)
                   \o <<128, 128, 4>> \o U16(8)
                   \o U16(6) \o U16(2) \o <<2, 1>> \o <<0, 0>>
                   \o U16(0))
    [] id = "trace_badend" -> Object(6, <<0>> \o U16(0) \o U16(1))
    [] id = "trace_unk" ->
         Object(6, <<0>> \o U16(1) \o <<130, 128, 32>> \o U16(1) \o <<9>> \o U16(0))
    [] id = "ping0" -> Object(7, <<0>> \o U16(0))
    [] id = "ping1" ->
         Object(7, <<128, 128, 96>> \o U16(24) \o V4(5) \o V6(1)
                   \o U16(1)
                   \o <<132, 16>> \o U16(6) \o <<64>> \o Ref(1))
    [] id = "ping_pad" -> Object(7, <<0>> \o U16(0) \o <<0>>)
    [] id = "unk0" -> Object(8, <<>>)
    [] id = "unk2" -> Object(9, <<0, 0>>)
    [] id = "list_unk" ->
         Object(1, U32(1) \o U32(2) \o <<97, 0>> \o <<4>> \o U16(1) \o <<0>>)
    [] id = "list_cut_str" ->
         Object(1, U32(1) \o U32(2) \o <<97, 0>> \o <<1>> \o U16(2) \o <<100>>)
    [] id = "list_cut_name" -> Object(1, U32(1) \o U32(2) \o <<97>>)
    [] id = "list_cut_more" -> Object(1, U32(1) \o U32(2) \o <<97, 0>> \o <<128>>)
    [] id = "trace_cut" -> Object(6, <<0>> \o U16(1) \o <<2>> \o U16(1))
    [] id = "hdr_cut" -> <<18, 5, 0>>
    [] id = "bad_magic" -> <<18, 6, 0, 1, 0, 0, 0, 0>>

\* complete objects
Whole == {"list", "list_d", "cycle", "cycle_start", "cycle_stop", "addr1",
          "addr2", "addr1_v6", "trace0", "trace_emb", "trace_ref", "trace_mix",
          "trace_zref1", "trace_ref0", "trace_hops", "trace_mpls", "trace_mpls6",
          "ping0", "ping1", "ping_pad", "unk0", "unk2"}

\* objects that end the decoding, and captures cut short
Ending == {"addr_bad_id", "trace_ext", "trace_badend", "trace_unk", "list_unk",
           "list_cut_str", "list_cut_name", "list_cut_more", "trace_cut",
           "hdr_cut", "bad_magic"}

MaxObjs == 3

Captures ==
  UNION {{f \in [1..k -> Whole \cup Ending] : \A i \in 1..(k - 1) : f[i] \in Whole}
         : k \in 0..MaxObjs}

RECURSIVE ConcatFrom(_, _)
ConcatFrom(f, i) == IF i > Len(f) THEN <<>> ELSE Bytes(f[i]) \o ConcatFrom(f, i + 1)

Concat(f) == ConcatFrom(f, 1)

\* ------------------------------------------------------------ the reader
\* __init__, lines 38-48, on a capture
Init ==
  /\ objs \in Captures
  /\ buf = Concat(objs)
  /\ pos = 0
  /\ address_ref = EmptyMap
  /\ deprecated_addresses = FALSE
  /\ record_len = 0
  /\ state = [wlistid |-> 0, listid |-> 0, wcycleid |-> 0, cycleid |-> 0,
              name |-> <<>>, start |-> 0]
  /\ status = "run"
  /\ err = NoErr
  /\ out = <<>>
  /\ log = <<>>
  /\ reg = EmptyMap
  /\ nobj = 0
  /\ hdrs = <<>>

\* the decoder state of the reader; dep is the value of deprecated_addresses
\* the handler runs with
Reader(dep) ==
  [pos |-> pos, ref |-> address_ref, err |-> NoErr, val |-> 0, log |-> log,
   reg |-> reg, n |-> nobj + 1, state |-> state, dep |-> dep]

\* one iteration of the loop of next(): h is the state after the header was
\* read, r the state after the handler; returns says whether next() returns
\* the handler's value
Iterate(h, r, returns) ==
  /\ pos' = r.pos
  /\ address_ref' = r.ref
  /\ state' = r.state
  /\ log' = r.log
  /\ reg' = r.reg
  /\ deprecated_addresses' = r.dep
  /\ record_len' = h.val.length
  /\ nobj' = nobj + 1
  /\ hdrs' = Append(hdrs, [obj |-> h.val.obj, length |-> h.val.length,
                           start |-> pos, end |-> h.pos, after |-> r.pos,
                           returned |-> Ok(r)])
  /\ err' = r.err
  /\ status' = IF Ok(r) THEN "run" ELSE "dead"
  /\ out' = IF Ok(r) /\ returns
            THEN Append(out, [ret |-> r.val, terminal |-> FALSE, n |-> nobj + 1])
            ELSE out
  /\ UNCHANGED <<buf, objs>>

\* line 170: the header read returned fewer than 8 bytes, h the state after it
end_of_stream(h) ==
  /\ Ok(h)
  /\ h.val.obj = -1
  /\ pos' = h.pos
  /\ record_len' = h.val.length
  /\ status' = "eof"
  /\ out' = Append(out, [ret |-> <<FALSE, FALSE>>, terminal |-> TRUE, n |-> nobj])
  /\ UNCHANGED <<buf, objs, address_ref, deprecated_addresses, state, err, log,
                 reg, nobj, hdrs>>

EndOfStream ==
  /\ status = "run"
  /\ end_of_stream(read_header(Reader(deprecated_addresses)))

\* line 298: assert(magic == 0x1205) fails, h the state after it
bad_magic(h) ==
  /\ ~Ok(h)
  /\ pos' = h.pos
  /\ err' = h.err
  /\ status' = "dead"
  /\ UNCHANGED <<buf, objs, address_ref, deprecated_addresses, state, out, log,
                 reg, nobj, hdrs, record_len>>

BadMagic ==
  /\ status = "run"
  /\ bad_magic(read_header(Reader(deprecated_addresses)))

\* a mutant of unsupported: the header is read again
unsupported_again(h) == [h EXCEPT !.pos = h.pos - 8]

\* lines 183-184: the object is printed and the loop goes on
unsupported(h) == h

\* lines 172-184: the branch of the object type; h is the state after the
\* header was read
handle(h) ==
  IF h.val.obj = 1 THEN read_list(h)
  ELSE IF h.val.obj = 2 THEN read_cycle(h)
  ELSE IF h.val.obj = 3 THEN read_cycle(h)
  ELSE IF h.val.obj = 4 THEN read_cycle_stop(h)
  ELSE IF h.val.obj = 5 THEN read_old_address(h)
  ELSE IF h.val.obj = 6 THEN read_trace(h)
  ELSE IF h.val.obj = 7 THEN read_ping(h)
  ELSE unsupported(h)

\* one iteration of the loop on an object of one of the types; returns says
\* whether the branch returns from next()
dispatch(h, types, returns) ==
  /\ Ok(h)
  /\ h.val.obj \in types
  /\ Iterate(h, handle(h), returns)

\* a mutant of ReadList: next() returns what read_list returned
ReadList_returning ==
  /\ status = "run"
  /\ dispatch(read_header(Reader(deprecated_addresses)), {1}, TRUE)

\* line 172
ReadList ==
  /\ status = "run"
  /\ dispatch(read_header(Reader(deprecated_addresses)), {1}, FALSE)

\* lines 173-174
ReadCycle ==
  /\ status = "run"
  /\ dispatch(read_header(Reader(deprecated_addresses)), {2, 3}, FALSE)

\* line 175
ReadCycleStop ==
  /\ status = "run"
  /\ dispatch(read_header(Reader(deprecated_addresses)), {4}, FALSE)

\* lines 176-178: deprecated_addresses is set before the handler runs
ReadOldAddress ==
  /\ status = "run"
  /\ dispatch(read_header(Reader(TRUE)), {5}, FALSE)

\* lines 179-180
ReadTrace ==
  /\ status = "run"
  /\ dispatch(read_header(Reader(deprecated_addresses)), {6}, TRUE)

\* lines 181-182
ReadPing ==
  /\ status = "run"
  /\ dispatch(read_header(Reader(deprecated_addresses)), {7}, TRUE)

\* lines 183-184
Unsupported ==
  /\ status = "run"
  /\ dispatch(read_header(Reader(deprecated_addresses)), (0..65535) \ (1..7),
              FALSE)

Next ==
  \/ EndOfStream
  \/ BadMagic
  \/ ReadList
  \/ ReadCycle
  \/ ReadCycleStop
  \/ ReadOldAddress
  \/ ReadTrace
  \/ ReadPing
  \/ Unsupported

Spec == Init /\ [][Next]_vars

\* ------------------------------------------------------------ properties
\* the history entries of the calls of op
Calls(op) == {log[i] : i \in {j \in 1..Len(log) : log[j].op = op}}

\* the 0-based positions of the indicator bits set in the flag bytes: bit i
\* (1..7) of byte j (1..) is position 7 * (j - 1) + (i - 1)
SetBits(fbytes) ==
  {k \in 0..(7 * Len(fbytes) - 1) :
     (fbytes[(k \div 7) + 1] \div (2 ^ (k % 7))) % 2 = 1}

Least(S) == CHOOSE x \in S : \A y \in S : x <= y

RECURSIVE Ascending(_)
Ascending(S) == IF S = {} THEN <<>> ELSE <<Least(S)>> \o Ascending(S \ {Least(S)})

IsPrefix(p, q) == Len(p) <= Len(q) /\ SubSeq(q, 1, Len(p)) = p

InSchema(e) == SetBits(e.fbytes) \subseteq 0..(Len(e.names) - 1)

\* C1: for every schema and every flag-byte sequence whose set indicator bits
\* all fall inside the schema, read_flags never takes the unknown-flag exit,
\* invokes the decoders in ascending bit position, and the map it returns has
\* exactly the schema names at the set-bit positions as its keys.
C1_FlagKeys ==
  \A e \in Calls("read_flags") :
    (e.flags_read /\ InSchema(e)) =>
      /\ e.unknown = 0
      /\ IsPrefix(e.order, Ascending(SetBits(e.fbytes)))
      /\ e.returned =>
           /\ e.order = Ascending(SetBits(e.fbytes))
           /\ e.keys = {e.names[k + 1] : k \in SetBits(e.fbytes)}

\* a call of read_flags with several flag bytes and several fields returned
C1_Witness ==
  \E e \in Calls("read_flags") :
    /\ e.returned
    /\ Len(e.fbytes) >= 3
    /\ Cardinality(SetBits(e.fbytes)) >= 3
    /\ Cardinality(e.keys) = Cardinality(SetBits(e.fbytes))

\* the pieces that hold one complete object of a type 0x01..0x07, by what
\* they are
Bookkeeping == {"list", "list_d", "cycle", "cycle_start", "cycle_stop"}
OldAddresses == {"addr1", "addr2", "addr1_v6"}
\* records whose addresses are embedded, or refer to an embedded one
ModernRecords == {"trace0", "trace_emb", "trace_hops", "trace_mpls", "ping0", "ping1"}
\* records whose addresses are ids of type-5 objects
DeprecatedRecords == {"trace0", "trace_hops", "trace_mpls", "ping0", "trace_ref"}
Records == {"trace0", "trace_emb", "trace_ref", "trace_mix", "trace_zref1",
            "trace_ref0", "trace_hops", "trace_mpls", "trace_mpls6", "trace_ext",
            "trace_badend", "trace_unk", "trace_cut", "ping0", "ping1",
            "ping_pad"}

OldBefore(f, i) == Cardinality({j \in 1..(i - 1) : f[j] \in OldAddresses})

\* a concatenation of well-formed objects: a modern capture, or a capture
\* with deprecated addressing in which the k-th type-5 object carries id k and
\* a record refers to ids of the type-5 objects before it
WellFormed(f) ==
  \/ \A i \in 1..Len(f) : f[i] \in Bookkeeping \cup ModernRecords
  \/ \A i \in 1..Len(f) :
       \/ f[i] \in Bookkeeping \cup (DeprecatedRecords \ {"trace_ref"})
       \/ f[i] \in {"addr1", "addr1_v6"} /\ OldBefore(f, i) = 0
       \/ f[i] = "addr2" /\ OldBefore(f, i) = 1
       \/ f[i] = "trace_ref" /\ OldBefore(f, i) >= 1

\* the offset of the i-th object of the capture
RECURSIVE Offset(_, _)
Offset(f, i) == IF i = 1 THEN 0 ELSE Offset(f, i - 1) + Len(Bytes(f[i - 1]))

\* the positions, in file order, of the trace and ping objects among the
\* first n objects
RecordsUpTo(n) == Ascending({i \in 1..n : objs[i] \in Records})

Presentation(typ, addr) == IF typ = 2 THEN inet_ntop6(addr) ELSE inet_ntop4(addr)

\* C3: address round trip: a lookup of an id under which an address was
\* registered since the table was last emptied succeeds and yields that
\* address, the bytes and the family it was registered with, whichever of
\* read_address and read_old_address registered it and whichever of
\* read_address and read_referenced_address looks it up.
C3_RoundTrip ==
  \A e \in Calls("resolve") :
    \A ta \in e.registered :
      /\ e.returned
      /\ e.res \in {ta[2], Presentation(ta[1], ta[2])}

\* C5: every registration assigns an id that is not yet a key of the address
\* table, so that the address mapped to an id never changes between two
\* resets of the table.
C5_NeverMutated ==
  \A e \in Calls("register") : e.fresh

\* C6: an object of a type outside 0x01..0x07 is skipped by its length: the
\* next header is read exactly length bytes after the end of its header.
C6_SkippedByLength ==
  \A i \in 1..Len(hdrs) :
    hdrs[i].obj \notin 1..7 => hdrs[i].after = hdrs[i].end + hdrs[i].length

\* C7: read_string never returns the bytes read so far when the stream ends
\* before a null terminator, so that a capture cut inside a string is never
\* decoded as a clean end of stream.
C7_StringTruncation ==
  \A e \in Calls("read_string") : e.eof => ~e.returned

\* the capture holds a type-5 address object
UsesDeprecated == \E i \in 1..Len(objs) : Len(Bytes(objs[i])) >= 8 /\ Bytes(objs[i])[4] = 5

\* the object numbers at which the address table was emptied
Cleared == {e.n : e \in Calls("clear")}

\* C4 as stated: at the start of each trace or ping record the address table
\* is emptied if and only if the capture does not use deprecated addressing,
\* and no record of a capture that holds a type-5 object removes an entry.
C4_ClearedIffModernFile ==
  /\ \A i \in 1..Len(hdrs) :
       hdrs[i].obj \in {6, 7} => (i \in Cleared <=> ~UsesDeprecated)
  /\ UsesDeprecated => \A e \in Calls("clear") : e.removed = {}

\* a type-5 object was read before the n-th object
OldAddressBefore(n) == \E j \in 1..(n - 1) : hdrs[j].obj = 5

\* C4 amended: deprecated_addresses is true exactly when a type-5 object has
\* been read; a step of next() that decodes a trace or ping record empties the
\* address table at its start if and only if no type-5 object has been read
\* before it, so that the table then holds only what this record registered;
\* once a type-5 object has been read, no record removes an entry.
C4_ClearedUntilOldAddress ==
  [][(nobj' = nobj + 1 /\ hdrs'[nobj'].obj \in {6, 7}) =>
       /\ deprecated_addresses <=> OldAddressBefore(nobj')
       /\ deprecated_addresses' = deprecated_addresses
       /\ nobj' \in Cleared' <=> ~OldAddressBefore(nobj')
       /\ OldAddressBefore(nobj') =>
            /\ DOMAIN address_ref \subseteq DOMAIN address_ref'
            /\ Cleared' = Cleared
       /\ ~OldAddressBefore(nobj') =>
            DOMAIN address_ref' \subseteq
              {e.id : e \in {c \in Calls("register")' : c.n = nobj'}}]_vars

\* a record read before the first type-5 object emptied the table, a record
\* read after it kept the entry of the type-5 object and resolved it
C4_Witness ==
  \E i, j, k \in 1..Len(hdrs) :
    /\ i < j /\ j < k
    /\ hdrs[i].obj = 6 /\ i \in Cleared
    /\ hdrs[j].obj = 5 /\ ~OldAddressBefore(j)
    /\ hdrs[k].obj = 6 /\ k \notin Cleared /\ hdrs[k].returned
    /\ DOMAIN address_ref = {1}
    /\ \E e \in Calls("resolve") : e.n = k /\ e.returned

\* C8: read_flags reads the flag bytes of the stream one after the other, a
\* further one after every byte with bit 8 (0x80) set and none after a byte
\* with bit 8 clear; when the stream ends where a flag byte is due, read_flags
\* fails with struct.error, returns no field map, and decoding ends.
C8_Continuation ==
  \A e \in Calls("read_flags") :
    /\ \A j \in 1..Len(e.fbytes) : e.fbytes[j] = buf[e.start + j]
    /\ \A j \in 1..(Len(e.fbytes) - 1) : e.fbytes[j] >= 128
    /\ e.flags_read =>
         /\ e.fbytes # <<>>
         /\ e.fbytes[Len(e.fbytes)] < 128
    /\ ~e.flags_read =>
         /\ \A j \in 1..Len(e.fbytes) : e.fbytes[j] >= 128
         /\ e.start + Len(e.fbytes) = Len(buf)
         /\ ~e.returned /\ e.err = StructError /\ e.keys = {}
         /\ status = "dead" /\ err = StructError /\ nobj = e.n
         /\ \A i \in 1..Len(out) : out[i].n # e.n

\* the stream ended right after a flag byte with bit 8 set
C8_Witness ==
  \E e \in Calls("read_flags") :
    /\ ~e.flags_read
    /\ e.fbytes # <<>>
    /\ e.fbytes[Len(e.fbytes)] >= 128
    /\ status = "dead"

\* the set bits of the call that lie beyond its schema
Beyond(e) == {k \in SetBits(e.fbytes) : k >= Len(e.names)}

\* C9: a call of read_flags whose flag bytes set a bit beyond the schema ends
\* decoding: it returns no field map, no record is produced for the object,
\* no later object is decoded, and no decoder is invoked for the bit; when the
\* fields before the bit were decoded the call ends in the unknown-flag exit,
\* which names the first such bit.
C9_UnknownFlagFatal ==
  \A e \in Calls("read_flags") :
    (e.flags_read /\ Beyond(e) # {}) =>
      /\ ~e.returned /\ e.err # NoErr
      /\ status = "dead" /\ err = e.err /\ nobj = e.n
      /\ \A i \in 1..Len(out) : out[i].n # e.n /\ ~out[i].terminal
      /\ IsPrefix(e.order, Ascending(SetBits(e.fbytes) \ Beyond(e)))
      /\ e.unknown \in {0, Least(Beyond(e)) + 1}
      /\ e.unknown # 0 =>
           /\ e.err = SystemExit
           /\ e.order = Ascending(SetBits(e.fbytes) \ Beyond(e))
      /\ (e.unknown = 0 /\ e.has_len) =>
           /\ e.order # <<>>
           /\ e.keys = {e.names[e.order[j] + 1] : j \in 1..(Len(e.order) - 1)}

\* the unknown-flag exit was taken in the second object of a capture, after a
\* field of the schema was decoded
C9_Witness ==
  \E e \in Calls("read_flags") :
    /\ e.unknown # 0
    /\ e.order # <<>>
    /\ e.n >= 2
    /\ status = "dead"

\* the offset of the body of the object read by the step
LastBody == hdrs'[nobj'].end

HopsOf(n) == Ascending({i \in 1..Len(log) : log[i].op = "hop" /\ log[i].n = n})

\* the pairs returned for trace objects
Traces == {i \in 1..Len(out) : ~out[i].terminal /\ hdrs[out[i].n].obj = 6}

\* the position of a name in the hop schema, 0-based
HopBit(name) == CHOOSE k \in 0..(Len(hop_flags) - 1) : hop_flags[k + 1][1] = name

\* C11: every hop of read_trace has an ipid and a qttl field: the decoded
\* value when the bit of the field is set in the hop's flag bytes, 0 for ipid
\* and 1 for qttl when it is not; the hops returned are these hops, and the
\* trace's own flag map gets neither field.
C11_HopDefaults ==
  /\ \A i \in 1..Len(log) :
       log[i].op = "hop" =>
         LET f == log[i - 1]
             h == log[i].hop
         IN /\ f.op = "read_flags" /\ f.returned /\ f.names[1] = "addrid"
            /\ DOMAIN log[i].hflags = f.keys
            /\ {"ipid", "qttl"} \subseteq DOMAIN h
            /\ h["ipid"] = IF HopBit("ipid") \in SetBits(f.fbytes)
                           THEN log[i].hflags["ipid"] ELSE 0
            /\ h["qttl"] = IF HopBit("qttl") \in SetBits(f.fbytes)
                           THEN log[i].hflags["qttl"] ELSE 1
  /\ \A i \in Traces :
       /\ out[i].ret.children =
            [k \in 1..Len(HopsOf(out[i].n)) |-> log[HopsOf(out[i].n)[k]].hop]
       /\ DOMAIN out[i].ret.flags \cap {"ipid", "qttl"} = {}

\* a trace was returned with a hop that has neither bit set and a hop whose
\* decoded qttl of 0 and decoded ipid were kept
C11_Witness ==
  \E i \in Traces :
    \E j, k \in 1..Len(out[i].ret.children) :
      /\ out[i].ret.children[j]["ipid"] = 0 /\ out[i].ret.children[j]["qttl"] = 1
      /\ out[i].ret.children[k]["ipid"] = 7 /\ out[i].ret.children[k]["qttl"] = 0

\* the split of every 16-bit value of the icmp field
SplitsAll ==
  \A v \in 0..65535 :
    LET h == icmp_split([icmp |-> v])
    IN /\ DOMAIN h = {"icmp-type", "icmp-code"}
       /\ h["icmp-type"] = v \div 256 /\ h["icmp-code"] = v % 256
       /\ 256 * h["icmp-type"] + h["icmp-code"] = v

\* C12: a hop whose icmp bit is set carries icmp-type = v div 256 and
\* icmp-code = v mod 256 of the 16-bit value v decoded for the field, and no
\* icmp field; a hop whose icmp bit is not set carries none of the three.  The
\* split is as stated for every 16-bit value.
C12_IcmpSplit ==
  /\ SplitsAll
  /\ \A i \in 1..Len(log) :
       log[i].op = "hop" =>
         LET h == log[i].hop
         IN IF HopBit("icmp") \in SetBits(log[i - 1].fbytes)
            THEN /\ {"icmp-type", "icmp-code"} \subseteq DOMAIN h
                 /\ "icmp" \notin DOMAIN h
                 /\ h["icmp-type"] = log[i].hflags["icmp"] \div 256
                 /\ h["icmp-code"] = log[i].hflags["icmp"] % 256
            ELSE DOMAIN h \cap {"icmp", "icmp-type", "icmp-code"} = {}

\* a trace was returned with a hop of icmp 0x0803, split in type 8 and code 3,
\* and a hop without icmp
C12_Witness ==
  \E i \in Traces :
    \E j, k \in 1..Len(out[i].ret.children) :
      /\ "icmp-type" \notin DOMAIN out[i].ret.children[j]
      /\ "icmp-type" \in DOMAIN out[i].ret.children[k]
      /\ out[i].ret.children[k]["icmp-type"] = 8
      /\ out[i].ret.children[k]["icmp-code"] = 3
      /\ \E e \in Calls("hop") : "icmp" \in DOMAIN e.hflags /\ e.hflags["icmp"] = 2051

\* the hop count of the n-th object, a trace: the word after its flags
HopCount(n) ==
  LET f == CHOOSE e \in Calls("read_flags") : e.n = n /\ e.start = hdrs[n].end
  IN buf[f.start + f.consumed + 1] * 256 + buf[f.start + f.consumed + 2]

\* C13: read_trace returns a record only when the word after the last hop is
\* 0, and the record then has as many hops as the hop count says, in stream
\* order; when the word is not 0 the call fails with an assertion error and
\* next() returns nothing for the object.
C13_TraceEnd ==
  /\ \A i \in Traces :
       LET n == out[i].n
       IN /\ \E e \in Calls("read_trace") :
               e.n = n /\ e.returned /\ e.end = 0 /\ e.records = HopCount(n)
          /\ buf[hdrs[n].after - 1] = 0 /\ buf[hdrs[n].after] = 0
          /\ Len(out[i].ret.children) = HopCount(n)
          /\ Len(HopsOf(n)) = HopCount(n)
  /\ \A e \in Calls("read_trace") :
       /\ e.returned <=> e.end = 0
       /\ e.end # 0 =>
            /\ status = "dead" /\ err = AssertionFailed /\ nobj = e.n
            /\ \A i \in 1..Len(out) : out[i].n # e.n
            /\ buf[pos - 1] * 256 + buf[pos] = e.end

\* a trace of two hops was returned, the next trace failed on its end word
C13_Witness ==
  /\ \E i \in Traces : Len(out[i].ret.children) = 2
  /\ \E e \in Calls("read_trace") : e.end # 0 /\ e.n = 2
  /\ status = "dead"

\* bit i (1..7) of the j-th flag byte of the call is set
BitOf(e, j, i) == (e.fbytes[j] \div (2 ^ (i - 1))) % 2 = 1

\* C14 as stated: bit 1 of flag byte 1 selects schema index 0 and bit 1 of
\* the second flag byte selects schema index 8: bit i of the j-th flag byte
\* selects schema index 8 * (j - 1) + (i - 1).
C14_EightPerByte ==
  \A e \in Calls("read_flags") :
    e.returned =>
      \A j \in 1..Len(e.fbytes) : \A i \in 1..7 :
        BitOf(e, j, i) =>
          /\ 8 * (j - 1) + i <= Len(e.names)
          /\ e.names[8 * (j - 1) + i] \in e.keys

\* C14 amended: bit 1 of flag byte 1 selects schema index 0 and bit 1 of the
\* second flag byte selects schema index 7: every flag byte carries 7
\* indicator bits, and bit i of the j-th flag byte selects schema index
\* 7 * (j - 1) + (i - 1); the decoders invoked are those of the indexes
\* selected, at increasing indexes.
C14_SevenPerByte ==
  \A e \in Calls("read_flags") :
    /\ \A k \in 1..Len(e.order) :
         /\ BitOf(e, (e.order[k] \div 7) + 1, (e.order[k] % 7) + 1)
         /\ k > 1 => e.order[k - 1] < e.order[k]
    /\ e.returned =>
         /\ \A j \in 1..Len(e.fbytes) : \A i \in 1..7 :
              BitOf(e, j, i) =>
                /\ 7 * (j - 1) + i <= Len(e.names)
                /\ e.names[7 * (j - 1) + i] \in e.keys
                /\ \E k \in 1..Len(e.order) : e.order[k] = 7 * (j - 1) + (i - 1)
         /\ Cardinality(e.keys) = Len(e.order)

\* a call returned the field of schema index 7 for bit 1 of its second flag
\* byte, and not the field of index 8
C14_Witness ==
  \E e \in Calls("read_flags") :
    /\ e.returned
    /\ Len(e.fbytes) = 2 /\ BitOf(e, 2, 1)
    /\ e.names[8] \in e.keys
    /\ e.names[9] \notin e.keys

\* C15: read_flags reads the 16-bit parameter length if and only if an
\* indicator bit is set in a flag byte or more than one flag byte was read;
\* a call that returns without it consumed the single flag byte 0x00 and
\* returns an empty map, and a call that returns with it and with no bit set
\* consumed the flag bytes and the two bytes of the length.  A trace object
\* with flag byte 0x00, hop count 0 and end word 0 decodes to ({}, []).
C15_ParamLen ==
  /\ \A e \in Calls("read_flags") :
       e.flags_read =>
         /\ e.has_len <=> (SetBits(e.fbytes) # {} \/ Len(e.fbytes) > 1)
         /\ ~e.has_len =>
              /\ e.returned /\ e.fbytes = <<0>> /\ e.consumed = 1 /\ e.keys = {}
         /\ (e.has_len /\ e.returned) => e.consumed >= Len(e.fbytes) + 2
         /\ (e.has_len /\ e.returned /\ SetBits(e.fbytes) = {}) =>
              /\ e.consumed = Len(e.fbytes) + 2 /\ e.keys = {}
         /\ (e.has_len /\ ~e.returned /\ e.order = <<>> /\ e.unknown = 0) =>
              /\ e.err = StructError
              /\ Len(buf) < e.start + Len(e.fbytes) + 2
  /\ \A i \in 1..Len(hdrs) :
       (/\ hdrs[i].obj = 6
        /\ Len(buf) >= hdrs[i].end + 5
        /\ SubSeq(buf, hdrs[i].end + 1, hdrs[i].end + 5) = <<0, 0, 0, 0, 0>>) =>
         /\ hdrs[i].returned /\ hdrs[i].after = hdrs[i].end + 5
         /\ \E k \in 1..Len(out) :
              /\ out[k].n = i
              /\ out[k].ret = [flags |-> EmptyMap, children |-> <<>>]

\* a call read the parameter length after two flag bytes without a bit set,
\* and the trace with flag byte 0x00 and no hop was returned as ({}, [])
C15_Witness ==
  /\ \E e \in Calls("read_flags") :
       e.returned /\ e.has_len /\ Len(e.fbytes) = 2 /\ SetBits(e.fbytes) = {}
  /\ \E k \in 1..Len(out) :
       /\ ~out[k].terminal
       /\ hdrs[out[k].n].obj = 6
       /\ out[k].ret = [flags |-> EmptyMap, children |-> <<>>]

\* C16: when the handler of an object of a type 0x01..0x07 returns without
\* error it has consumed exactly the length of the header: the position after
\* it is the position after the header plus length.
C16_ConsumesLength ==
  \A i \in 1..Len(hdrs) :
    (hdrs[i].obj \in 1..7 /\ hdrs[i].returned) =>
      hdrs[i].after = hdrs[i].end + hdrs[i].length

\* the 32-bit word of the capture at offset p
Word(p) == ((buf[p + 1] * 256 + buf[p + 2]) * 256 + buf[p + 3]) * 256 + buf[p + 4]

\* the fields of the state other than those of F are the same after the step
OnlyChanges(F) == \A k \in DOMAIN state \ F : state'[k] = state[k]

\* the type of the object read by the step
ObjectRead == hdrs'[nobj'].obj

\* C17 as stated: the state persists and each part is mutated only by its own
\* object: a list object changes only wlistid, listid and name, a cycle or
\* cycle-start object changes only wcycleid, cycleid and start, every other
\* object leaves the state unchanged.
C17_OwnFieldsOnly ==
  [][/\ DOMAIN state' = DOMAIN state
     /\ IF nobj' = nobj THEN state' = state
        ELSE IF ObjectRead = 1 THEN OnlyChanges({"wlistid", "listid", "name"})
        ELSE IF ObjectRead \in {2, 3}
        THEN OnlyChanges({"wcycleid", "cycleid", "start"})
        ELSE state' = state]_vars

\* C17 amended: the state persists across the capture; a list object changes
\* only wlistid, listid and name; a cycle or cycle-start object changes only
\* wcycleid, listid, cycleid and start, listid becoming the second word of the
\* cycle object; trace, ping, cycle-stop, type-5 and unknown objects, and the
\* end of the stream, leave the state unchanged.
C17_CycleSetsListid ==
  [][/\ DOMAIN state' = DOMAIN state
     /\ IF nobj' = nobj THEN state' = state
        ELSE IF ObjectRead = 1
        THEN /\ OnlyChanges({"wlistid", "listid", "name"})
             /\ hdrs'[nobj'].returned =>
                  /\ state'.wlistid = Word(hdrs'[nobj'].end)
                  /\ state'.listid = Word(hdrs'[nobj'].end + 4)
        ELSE IF ObjectRead \in {2, 3}
        THEN /\ OnlyChanges({"wcycleid", "listid", "cycleid", "start"})
             /\ hdrs'[nobj'].returned =>
                  /\ state'.wcycleid = Word(hdrs'[nobj'].end)
                  /\ state'.listid = Word(hdrs'[nobj'].end + 4)
                  /\ state'.cycleid = Word(hdrs'[nobj'].end + 8)
                  /\ state'.start = Word(hdrs'[nobj'].end + 12)
        ELSE state' = state]_vars

\* a list, a cycle and a trace were read: the state holds the name and wlistid
\* of the list, the listid and the cycle fields of the cycle object
C17_Witness ==
  /\ Len(hdrs) = 3
  /\ hdrs[1].obj = 1 /\ hdrs[2].obj \in {2, 3} /\ hdrs[3].obj = 6
  /\ hdrs[3].returned
  /\ state.wlistid = Word(hdrs[1].end) /\ state.name # <<>>
  /\ state.listid = Word(hdrs[2].end + 4)
  /\ state.listid # Word(hdrs[1].end + 4)
  /\ state.wcycleid = Word(hdrs[2].end)

\* C18: each iteration of read_icmpext over an MPLS extension consumes
\* exactly 4 + sub_length bytes, the amount the remaining length is
\* decremented by, and a call whose sub-lengths add up to the total consumes
\* 2 + total_length bytes.
C18_IcmpextConsumes ==
  /\ \A e \in Calls("icmpext") :
       e.returned =>
         /\ e.left = e.tot_len - (4 + e.ie_dl)
         /\ e.consumed = 4 + e.ie_dl
  /\ \A e \in Calls("read_icmpext") :
       (/\ e.returned
        /\ \E i \in Calls("icmpext") : i.n = e.n /\ i.returned /\ i.left = 0) =>
         e.consumed = 2 + e.tot_len

\* no type-5 object was read up to the n-th object
Modern(n) == \A j \in 1..n : j <= Len(hdrs) => hdrs[j].obj # 5

\* the positions in log, before position i, of the registrations of id by
\* embedded addresses of the n-th object
EmbeddedBefore(i, n, id) ==
  {j \in 1..(i - 1) : /\ log[j].op = "register" /\ log[j].n = n
                      /\ log[j].id = id /\ log[j].via = "read_address"}

\* C19: while no type-5 object has been read, a referenced id is in the table
\* exactly when an address was embedded under it earlier in the same record,
\* and the lookup then yields that address; the lookup of any other id, one
\* registered in an earlier record or never, ends decoding with SystemExit
\* (read_address) or an assertion error (read_referenced_address), and next()
\* returns nothing for the object.
C19_ResolveWithinRecord ==
  \A i \in 1..Len(log) :
    (log[i].op = "resolve" /\ Modern(log[i].n)) =>
      LET e == log[i]
          emb == EmbeddedBefore(i, e.n, e.id)
      IN /\ e.known <=> emb # {}
         /\ e.known =>
              /\ e.returned
              /\ e.registered = {<<log[j].typ, log[j].addr>> : j \in emb}
              /\ \A j \in emb :
                   e.res \in {log[j].addr, Presentation(log[j].typ, log[j].addr)}
         /\ ~e.known =>
              /\ ~e.returned
              /\ status = "dead" /\ nobj = e.n
              /\ err = IF e.via = "read_address" THEN SystemExit
                       ELSE AssertionFailed
              /\ \A k \in 1..Len(out) : out[k].n # e.n

\* a record referred to an id that only the record before it had registered,
\* and decoding ended
C19_Witness ==
  \E e \in Calls("resolve") :
    /\ Modern(e.n) /\ ~e.known /\ e.n >= 2
    /\ \E r \in Calls("register") : r.n = e.n - 1 /\ r.id = e.id
    /\ \E k \in 1..Len(out) : out[k].n = e.n - 1
    /\ status = "dead"

\* the positions in log of the calls of op made for the n-th object
CallsOf(op, n) == {i \in 1..Len(log) : log[i].op = op /\ log[i].n = n}

\* the loops inside the handlers: the flag bytes and the bytes of a string
\* are bytes of the stream, the hops of a trace are at most its hop count, and
\* the remaining length of read_icmpext decreased in every iteration
LoopsBounded ==
  /\ \A e \in Calls("read_flags") :
       /\ e.start + Len(e.fbytes) <= Len(buf)
       /\ Len(e.order) <= Len(e.names)
  /\ \A e \in Calls("read_string") :
       /\ e.start + Len(e.str) <= Len(buf)
       /\ e.eof => e.start + Len(e.str) = Len(buf)
  /\ \A e \in Calls("icmpext") : e.tot_len > 0 /\ e.left < e.tot_len
  /\ \A n \in 1..Len(hdrs) :
       (hdrs[n].obj = 6 /\ CallsOf("hop", n) # {}) =>
         Cardinality(CallsOf("hop", n)) <= HopCount(n)

\* the header read of the next iteration has one of the outcomes of lines
\* 169-184: the terminal value, the failed assertion of the magic number, or
\* the branch of an object type
NextReady ==
  status = "run" =>
    LET h == read_header(Reader(deprecated_addresses))
    IN \/ ~Ok(h) /\ h.err = AssertionFailed
       \/ Ok(h) /\ h.val.obj = -1 /\ Len(buf) - pos < 8
       \/ Ok(h) /\ h.val.obj \in 0..65535 /\ h.pos = pos + 8

\* C20: every call of next() terminates, by a record, by the terminal value
\* or by an error.  Every iteration of the loop of next() has an outcome; one
\* that neither returns the terminal value nor fails on the magic number
\* consumes the 8 bytes of a header, and the position never exceeds the length
\* of the stream, so that the loop runs at most Len(buf) / 8 times; the loops
\* inside the handlers are bounded by the stream, by their counts and by the
\* decreasing remaining length.
C20_Terminates ==
  [][/\ NextReady /\ NextReady'
     /\ status = "run" /\ status' \in {"run", "eof", "dead"}
     /\ nobj' \in {nobj, nobj + 1}
     /\ nobj' = nobj => status' \in {"eof", "dead"}
     /\ nobj' = nobj + 1 =>
          /\ hdrs'[nobj'].start = pos /\ hdrs'[nobj'].end = pos + 8
          /\ pos' >= pos + 8
     /\ pos' >= pos /\ pos' <= Len(buf)
     /\ 8 * nobj' <= pos'
     /\ status' = "eof" => pos' = Len(buf) /\ pos' - pos < 8
     /\ LoopsBounded']_vars

\* decoding ended after an iteration on an unknown object, a record with an
\* icmp extension and hops, and a string cut by the end of the stream
C20_Witness ==
  /\ status = "eof"
  /\ \E n \in 1..Len(hdrs) : hdrs[n].obj \notin 1..7
  /\ Calls("icmpext") # {}
  /\ \E e \in Calls("read_string") : e.eof
====
